---- MODULE Spec2Model ----
(***************************************************************************)
(* count_code.py: a directory walk that counts lines and (heuristically)   *)
(* functions of the .ts/.tsx/.js/.jsx files below a root and prints one    *)
(* record per file plus a summary.                                         *)
(*                                                                         *)
(* A text is a sequence of tokens.  A token stands for a maximal run of    *)
(* characters of one class: a word (\w+: "function", "async", "const",     *)
(* "let", or any other word, "id"), one punctuation mark, or one           *)
(* white-space character that matters ("NL" = \n, "CR" = \r, "FF" = \f,    *)
(* the latter standing for every line boundary of str.splitlines that is   *)
(* not \n or \r).  Blanks between tokens are not represented: every        *)
(* pattern of count_functions allows \s* or \s+ between any two of its     *)
(* parts, and two adjacent word tokens are necessarily separated by one.   *)
(* "BAD" is a byte that does not decode as UTF-8.                          *)
(*                                                                         *)
(* A file name is a sequence of characters, a directory path a sequence of *)
(* directory names starting with the root's, a file path the pair of its   *)
(* directory path and its name.                                            *)
(*                                                                         *)
(* Exceptions are modelled where the program expects them, in the try      *)
(* block of lines 39-51: open, read, and relpath/print of the record may   *)
(* each raise.  The statements outside it (the handler's print of line 54, *)
(* the prints of lines 60 and 64-70) are taken to complete.  The order in  *)
(* which scandir lists the entries of a directory is arbitrary.            *)
(***************************************************************************)
EXTENDS Integers, Sequences, FiniteSets, TLC

VARIABLES
    rootName,         \* last component of root_dir
    rootState,        \* "present" | "missing" | "inaccessible"
    fsDirs,           \* the directories on disk (paths starting at the root)
    fsFiles,          \* the regular files on disk
    mode,             \* which texts the files on disk may hold
    pc,               \* position of the single thread of control
    walkStack,        \* os.walk: directories still to scan (top = last)
    dirpath,          \* os.walk: the directory being yielded
    dirnames,         \* os.walk: its subdirectory names (pruned in place)
    filenames,        \* the file names of dirpath not yet iterated
    filepath,         \* line 38
    raw,              \* the bytes of the file being read
    content,          \* line 41
    lines,            \* line 42
    functions,        \* line 43
    exc,              \* the exception being handled (line 53)
    total_lines,      \* line 25
    total_functions,  \* line 26
    file_count,       \* line 27
    stdout,           \* what print() wrote, in order
    stderr,           \* what was written to sys.stderr, in order
    openFiles,        \* file objects currently open
    opened,           \* history: every path passed to open()
    counted,          \* history: every file whose values were added to the totals
    ioFailed,         \* history: every file whose open() or read() raised
    exit              \* "running" | "0" (normal completion) | "traceback"

vars == <<rootName, rootState, fsDirs, fsFiles, mode, pc, walkStack, dirpath,
          dirnames, filenames, filepath, raw, content, lines, functions, exc,
          total_lines, total_functions, file_count, stdout, stderr, openFiles,
          opened, counted, ioFailed, exit>>

(***************************************************************************)
(* Bounds of the model.                                                    *)
(***************************************************************************)
MaxDirs == 1      \* directories below the root
MaxFiles == 2     \* regular files in the tree
MaxChars == 4     \* length of a text in the line-counting specification
MaxEdits == 1     \* edits applied to a seed text in the function-counting one

DirNames == {"src", "build"}
RootNames == {"proj", "build"}
FileNames == { <<"a", ".", "t", "s">>,
               <<"b", ".", "j", "s", "x">>,
               <<"c", ".", "t", "s", ".", "b", "a", "k">> }

NoPath == [dir |-> <<>>, name |-> <<>>]

(***************************************************************************)
(* Program constants, lines 29-30.                                         *)
(***************************************************************************)
extensions == << <<".", "t", "s">>, <<".", "t", "s", "x">>,
                 <<".", "j", "s">>, <<".", "j", "s", "x">> >>
exclude_dirs == {"node_modules", ".next", "dist", "build", ".git"}

(***************************************************************************)
(* Helpers.                                                                *)
(***************************************************************************)
RECURSIVE Perms(_)
Perms(S) ==
    IF S = {} THEN {<<>>}
    ELSE UNION {{<<x>> \o p : p \in Perms(S \ {x})} : x \in S}

IsPrefix(p, s) == Len(p) <= Len(s) /\ SubSeq(s, 1, Len(p)) = p

\* str.endswith(suffix)
EndsWith(s, suffix) ==
    /\ Len(suffix) <= Len(s)
    /\ SubSeq(s, Len(s) - Len(suffix) + 1, Len(s)) = suffix

\* a slip: `any(ext in filename ...)`, the suffix found anywhere in the name
ContainsAny(s, suffixes) ==
    \E i \in 1..Len(suffixes) :
        \E k \in 1..Len(s) :
            k + Len(suffixes[i]) - 1 <= Len(s)
                /\ SubSeq(s, k, k + Len(suffixes[i]) - 1) = suffixes[i]

\* str.endswith(tuple): line 37
EndsWithAny(s, suffixes) == \E i \in 1..Len(suffixes) : EndsWith(s, suffixes[i])

\* os.path.join(dirpath, filename): line 38
Join(d, f) == [dir |-> d, name |-> f]

\* os.path.relpath(filepath, root_dir): line 50.  filepath lies below root_dir.
RelPath(fp, root) == [dir |-> SubSeq(fp.dir, Len(root) + 1, Len(fp.dir)), name |-> fp.name]

\* a slip: dirnames left as scandir gave them
PruneNothing(names) == names

\* line 34
PruneDirs(names) == {d \in names : d \notin exclude_dirs}

(***************************************************************************)
(* Reading a file as text: open(..., 'r', encoding='utf-8',                *)
(* errors='ignore') and f.read(), lines 40-41.                             *)
(***************************************************************************)
Words == {"function", "async", "const", "let", "id"}
WhiteSpace == {"NL", "CR", "FF"}
Puncts == {"(", ")", "=", "=>", ":", "{", "}"}
Tokens == Words \cup WhiteSpace \cup Puncts
LineBoundaries == {"NL", "CR", "FF"}

\* errors='ignore': bytes that do not decode are dropped
RECURSIVE Decode(_)
Decode(bytes) ==
    IF bytes = <<>> THEN <<>>
    ELSE IF Head(bytes) = "BAD" THEN Decode(Tail(bytes))
    ELSE <<Head(bytes)>> \o Decode(Tail(bytes))

\* newline=None: "\r\n" and a lone "\r" are read as "\n"
RECURSIVE TranslateNewlines(_)
TranslateNewlines(s) ==
    IF s = <<>> THEN <<>>
    ELSE IF Head(s) = "CR"
         THEN IF Len(s) >= 2 /\ s[2] = "NL"
              THEN <<"NL">> \o TranslateNewlines(Tail(Tail(s)))
              ELSE <<"NL">> \o TranslateNewlines(Tail(s))
    ELSE <<Head(s)>> \o TranslateNewlines(Tail(s))

TextRead(bytes) == TranslateNewlines(Decode(bytes))

(***************************************************************************)
(* str.splitlines(), line 42: split at every line boundary, "\r\n" being   *)
(* one boundary; no empty last line after a final boundary.                *)
(***************************************************************************)
FirstBoundary(s) ==
    IF \E i \in 1..Len(s) : s[i] \in LineBoundaries
    THEN CHOOSE i \in 1..Len(s) :
            /\ s[i] \in LineBoundaries
            /\ \A j \in 1..(i - 1) : s[j] \notin LineBoundaries
    ELSE 0

\* a slip: content.split("\n"), an empty last piece after a final newline
RECURSIVE SplitOnNewline(_)
SplitOnNewline(s) ==
    IF \E i \in 1..Len(s) : s[i] = "NL"
    THEN LET i == CHOOSE j \in 1..Len(s) :
                     s[j] = "NL" /\ \A m \in 1..(j - 1) : s[m] # "NL"
         IN  <<SubSeq(s, 1, i - 1)>> \o SplitOnNewline(SubSeq(s, i + 1, Len(s)))
    ELSE <<s>>

RECURSIVE SplitLines(_)
SplitLines(s) ==
    IF s = <<>> THEN <<>>
    ELSE LET i == FirstBoundary(s) IN
         IF i = 0 THEN <<s>>
         ELSE LET skip == IF s[i] = "CR" /\ i < Len(s) /\ s[i + 1] = "NL" THEN 2 ELSE 1
              IN  <<SubSeq(s, 1, i - 1)>> \o SplitLines(SubSeq(s, i + skip, Len(s)))

(***************************************************************************)
(* count_functions, lines 4-21.  A pattern is its sequence of parts:       *)
(* a literal token, "\\w+" (any word), or "(...)" for \([^)]*\) (an        *)
(* opening parenthesis up to the first closing one); anchored patterns     *)
(* start with ^\s* under re.MULTILINE.                                     *)
(***************************************************************************)
patterns == <<
    [anchored |-> FALSE, parts |-> <<"function", "\\w+", "(">>],
    [anchored |-> FALSE, parts |-> <<"const", "\\w+", "=", "(...)", "=>">>],
    [anchored |-> FALSE, parts |-> <<"let", "\\w+", "=", "(...)", "=>">>],
    [anchored |-> FALSE, parts |-> <<"async", "function", "\\w+", "(">>],
    [anchored |-> FALSE, parts |-> <<"\\w+", ":", "(...)", "=>">>],
    [anchored |-> TRUE,  parts |-> <<"\\w+", "(...)", "{">>],
    [anchored |-> TRUE,  parts |-> <<"async", "\\w+", "(...)", "{">>] >>

\* \s*: the first index from i on that holds no white space
RECURSIVE SkipSpace(_, _)
SkipSpace(s, i) ==
    IF i <= Len(s) /\ s[i] \in WhiteSpace THEN SkipSpace(s, i + 1) ELSE i

\* the index of the first ")" from i on, 0 if there is none
RECURSIVE FirstClose(_, _)
FirstClose(s, i) ==
    IF i > Len(s) THEN 0
    ELSE IF s[i] = ")" THEN i
    ELSE FirstClose(s, i + 1)

\* parts k.. of the pattern matched from token i on: the index after the
\* match, 0 if there is none
RECURSIVE MatchParts(_, _, _, _)
MatchParts(parts, k, s, i) ==
    IF k > Len(parts) THEN i
    ELSE LET j == IF k = 1 THEN i ELSE SkipSpace(s, i) IN
         IF j > Len(s) THEN 0
         ELSE IF parts[k] = "\\w+"
              THEN IF s[j] \in Words THEN MatchParts(parts, k + 1, s, j + 1) ELSE 0
         ELSE IF parts[k] = "(...)"
              THEN IF s[j] = "(" /\ FirstClose(s, j + 1) # 0
                   THEN MatchParts(parts, k + 1, s, FirstClose(s, j + 1) + 1)
                   ELSE 0
         ELSE IF s[j] = parts[k] THEN MatchParts(parts, k + 1, s, j + 1) ELSE 0

\* ^\s* before token i, the search having started at token pos: a line start
\* (the start of the text or the place after a "\n") not before pos, and
\* only white space between it and token i
LineStart(s, pos, i) ==
    \/ pos = 1 /\ \A m \in 1..(i - 1) : s[m] \in WhiteSpace
    \/ \E j \in 1..(i - 1) :
          /\ j >= pos - 1
          /\ s[j] = "NL"
          /\ \A m \in (j + 1)..(i - 1) : s[m] \in WhiteSpace

\* len(re.findall(pattern, content, re.MULTILINE)): the matches found from
\* left to right, each search starting where the last match ended
RECURSIVE FindAll(_, _, _, _)
FindAll(pattern, s, pos, i) ==
    IF i > Len(s) THEN 0
    ELSE LET e == IF pattern.anchored /\ ~LineStart(s, pos, i)
                  THEN 0
                  ELSE MatchParts(pattern.parts, 1, s, i)
         IN  IF e # 0 THEN 1 + FindAll(pattern, s, e, e)
             ELSE FindAll(pattern, s, pos, i + 1)

NumMatches(pattern, s) == FindAll(pattern, s, 1, 1)

\* the loop of lines 17-19, from pattern k on
RECURSIVE CountFrom(_, _, _)
CountFrom(k, count, s) ==
    IF k > Len(patterns) THEN count
    ELSE CountFrom(k + 1, count + NumMatches(patterns[k], s), s)

\* a slip: a construct matched by two patterns counted once (the matches
\* told apart by where they end)
RECURSIVE MatchEnds(_, _, _, _)
MatchEnds(pattern, s, pos, i) ==
    IF i > Len(s) THEN {}
    ELSE LET e == IF pattern.anchored /\ ~LineStart(s, pos, i)
                  THEN 0
                  ELSE MatchParts(pattern.parts, 1, s, i)
         IN  IF e # 0 THEN {e} \cup MatchEnds(pattern, s, e, e)
             ELSE MatchEnds(pattern, s, pos, i + 1)

count_functions_dedup(s) ==
    Cardinality(UNION {MatchEnds(patterns[k], s, 1, 1) : k \in 1..Len(patterns)})

count_functions(s) == CountFrom(1, 0, s)

(***************************************************************************)
(* The texts a file may hold.                                              *)
(***************************************************************************)
SeqsUpTo(S, n) == UNION {[1..k -> S] : k \in 0..n}

SampleContents ==
    { <<"async", "function", "id", "(", ")", "{", "NL", "id", "NL", "}", "NL">>,
      <<"id", "NL">> }

\* every text of at most n characters: a word, line boundaries, a bad byte
LineTexts(n) == SeqsUpTo({"id", "NL", "CR", "FF", "BAD"}, n)

Seeds ==
    { <<>>,
      <<"function", "id", "(", ")", "{">>,
      <<"async", "function", "id", "(">>,
      <<"const", "id", "=", "(", ")", "=>">>,
      <<"let", "id", "=", "(", ")", "=>">>,
      <<"id", ":", "(", ")", "=>">>,
      <<"id", "(", ")", "{">>,
      <<"async", "id", "(", ")", "{">> }

Replace(s, i, t) == [s EXCEPT ![i] = t]
Insert(s, i, t) == SubSeq(s, 1, i - 1) \o <<t>> \o SubSeq(s, i, Len(s))
Delete(s, i) == SubSeq(s, 1, i - 1) \o SubSeq(s, i + 1, Len(s))

OneEdit(s) ==
    {Replace(s, i, t) : i \in 1..Len(s), t \in Tokens}
        \cup {Insert(s, i, t) : i \in 1..(Len(s) + 1), t \in Tokens}
        \cup {Delete(s, i) : i \in 1..Len(s)}

RECURSIVE Edited(_, _)
Edited(S, n) == IF n = 0 THEN S ELSE Edited(S \cup UNION {OneEdit(s) : s \in S}, n - 1)

\* the seeds and every text at most n edits away from one
FunctionTexts(n) == Edited(Seeds, n)

Universe(m) ==
    CASE m = "sample" -> SampleContents
      [] m = "lines" -> LineTexts(MaxChars)
      [] m = "functions" -> FunctionTexts(MaxEdits)

(***************************************************************************)
(* The file system.                                                        *)
(***************************************************************************)
root_dir == <<rootName>>

\* the subsets of S with at most n elements
RECURSIVE SubsetsUpTo(_, _)
SubsetsUpTo(S, n) ==
    IF n = 0 \/ S = {} THEN {{}}
    ELSE LET x == CHOOSE y \in S : TRUE
             rest == S \ {x}
         IN  SubsetsUpTo(rest, n) \cup {T \cup {x} : T \in SubsetsUpTo(rest, n - 1)}

RelDirs == UNION {[1..n -> DirNames] : n \in 1..MaxDirs}

\* the sets of at most MaxDirs directories below the root, each with its parent
Trees ==
    {D \in SubsetsUpTo(RelDirs, MaxDirs) :
        \A p \in D : Len(p) > 1 => SubSeq(p, 1, Len(p) - 1) \in D}

\* os.scandir(top): the entries that are directories, and those that are not
Subdirs(top) == {d[Len(d)] : d \in {e \in fsDirs : Len(e) = Len(top) + 1 /\ IsPrefix(top, e)}}
Files(top) == {f.name : f \in {e \in fsFiles : e.dir = top}}

\* os.scandir(top) raises OSError
ScandirFails(top) == top \notin fsDirs \/ (top = root_dir /\ rootState # "present")

(***************************************************************************)
(* What is printed.                                                        *)
(***************************************************************************)
Line(kind, text, path, msg, files, nlines, nfunctions) ==
    [kind |-> kind, text |-> text, path |-> path, msg |-> msg,
     files |-> files, lines |-> nlines, functions |-> nfunctions]

\* line 60
Banner == Line("banner", "Proje analiz ediliyor...", NoPath, "", 0, 0, 0)
\* line 51
RecordLine(rel_path, nlines, nfunctions) ==
    Line("record", "", rel_path, "", 0, nlines, nfunctions)
\* line 54
DiagLine(path, e) == Line("diag", "Hata", path, e, 0, 0, 0)
\* a slip: the returned tuple (total_lines, total_functions, file_count)
\* unpacked in another order
SummaryBlockSwapped(files, nlines, nfunctions) ==
    Line("summary", "OZET", NoPath, "", nlines, nfunctions, files)

\* lines 64-70
SummaryBlock(files, nlines, nfunctions) ==
    Line("summary", "OZET", NoPath, "", files, nlines, nfunctions)

\* a slip: print(..., file=sys.stderr)
DiagStreamStderr == "stderr"

\* the stream print() writes to at line 54: sys.stdout, no file= is given
DiagStream == "stdout"

\* a slip: `except FileNotFoundError`, which a failing read escapes
CaughtOnlyOpen(e) == e = "open"

\* the exceptions `except Exception` (line 53) catches: all that the try
\* block raises here (OSError from open/read, ValueError or OSError from
\* relpath/print)
Caught(e) == e \in {"open", "read", "print"}

\* a slip: os.walk(root_dir, onerror=...) with a handler that raises
OnScandirErrorRaise == "raise"

\* os.walk(root_dir) is called without onerror: a scandir error is dropped
OnScandirError == "ignore"

\* a slip: f = open(...) and f.close() at the end of the block, no with
WithExitLeak(handles, fp, raised) == IF raised THEN handles ELSE handles \ {fp}

\* the with statement (line 40) closes f when the block is left, normally
\* or by an exception
WithExit(handles, fp, raised) == handles \ {fp}

(***************************************************************************)
(* The run: __main__ (lines 58-70) calling analyze_project (lines 23-56).  *)
(***************************************************************************)
Idle ==
    /\ walkStack = <<>> /\ dirpath = <<>> /\ dirnames = {} /\ filenames = {}
    /\ filepath = NoPath /\ raw = <<>> /\ content = <<>>
    /\ lines = 0 /\ functions = 0 /\ exc = ""
    /\ total_lines = 0 /\ total_functions = 0 /\ file_count = 0
    /\ stdout = <<>> /\ stderr = <<>>
    /\ openFiles = {} /\ opened = {} /\ counted = {} /\ ioFailed = {}
    /\ exit = "running"

\* the program is started on some tree
Init ==
    /\ rootName \in RootNames
    /\ rootState \in {"present", "missing", "inaccessible"}
    /\ \E D \in Trees :
          fsDirs = IF rootState = "present"
                   THEN {root_dir \o d : d \in D \cup {<<>>}}
                   ELSE {}
    /\ fsFiles \in SubsetsUpTo({Join(d, f) : d \in fsDirs, f \in FileNames}, MaxFiles)
    /\ mode = "sample"
    /\ pc = "main"
    /\ Idle

\* lines 59-62 and 25-32: the banner, the call, the counters, os.walk(root)
Main ==
    /\ pc = "main"
    /\ stdout' = Append(stdout, Banner)
    /\ total_lines' = 0 /\ total_functions' = 0 /\ file_count' = 0
    /\ walkStack' = <<root_dir>>
    /\ pc' = "walk"
    /\ UNCHANGED <<rootName, rootState, fsDirs, fsFiles, mode, dirpath, dirnames,
                   filenames, filepath, raw, content, lines, functions, exc,
                   stderr, openFiles, opened, counted, ioFailed, exit>>

\* line 32, os.walk asked for its next directory: the generator is
\* exhausted (line 56 returns), or a scandir error is dropped, or it yields
\* (dirpath, dirnames, filenames) and line 34 prunes dirnames in place
WalkNext ==
    /\ pc = "walk"
    /\ IF walkStack = <<>>
       THEN /\ pc' = "summary"
            /\ UNCHANGED <<walkStack, dirpath, dirnames, filenames, exit>>
       ELSE LET top == walkStack[Len(walkStack)]
                rest == SubSeq(walkStack, 1, Len(walkStack) - 1)
            IN  IF ScandirFails(top)
                THEN /\ walkStack' = rest
                     /\ IF OnScandirError = "ignore"
                        THEN pc' = "walk" /\ exit' = exit
                        ELSE pc' = "crashed" /\ exit' = "traceback"
                     /\ UNCHANGED <<dirpath, dirnames, filenames>>
                ELSE /\ walkStack' = rest
                     /\ dirpath' = top
                     /\ dirnames' = PruneDirs(Subdirs(top))
                     /\ filenames' = Files(top)
                     /\ pc' = "files"
                     /\ exit' = exit
    /\ UNCHANGED <<rootName, rootState, fsDirs, fsFiles, mode, filepath, raw,
                   content, lines, functions, exc, total_lines, total_functions,
                   file_count, stdout, stderr, openFiles, opened, counted, ioFailed>>

\* lines 36-38: the next file name, in the order scandir gave
ForFile ==
    /\ pc = "files"
    /\ \E filename \in filenames :
          /\ filenames' = filenames \ {filename}
          /\ IF EndsWithAny(filename, extensions)
             THEN filepath' = Join(dirpath, filename) /\ pc' = "open"
             ELSE filepath' = filepath /\ pc' = "files"
    /\ UNCHANGED <<rootName, rootState, fsDirs, fsFiles, mode, walkStack, dirpath,
                   dirnames, raw, content, lines, functions, exc, total_lines,
                   total_functions, file_count, stdout, stderr, openFiles, opened,
                   counted, ioFailed, exit>>

\* the for loop of line 36 is over: os.walk resumes and stacks the
\* directories left in dirnames, in the order scandir gave
WalkResume ==
    /\ pc = "files"
    /\ filenames = {}
    /\ \E order \in Perms(dirnames) :
          walkStack' = walkStack \o [i \in 1..Len(order) |-> dirpath \o <<order[i]>>]
    /\ pc' = "walk"
    /\ UNCHANGED <<rootName, rootState, fsDirs, fsFiles, mode, dirpath, dirnames,
                   filenames, filepath, raw, content, lines, functions, exc,
                   total_lines, total_functions, file_count, stdout, stderr,
                   openFiles, opened, counted, ioFailed, exit>>

\* an exception e leaves the try block with the file objects `handles` open
Raise(e, handles) ==
    /\ exc' = e
    /\ openFiles' = handles
    /\ IF Caught(e)
       THEN pc' = "except" /\ exit' = exit
       ELSE pc' = "crashed" /\ exit' = "traceback"

\* line 40: open(filepath, ...)
Open ==
    /\ pc = "open"
    /\ opened' = opened \cup {filepath}
    /\ \/ /\ openFiles' = openFiles \cup {filepath}
          /\ pc' = "read"
          /\ UNCHANGED <<exc, exit, ioFailed>>
       \/ /\ Raise("open", openFiles)
          /\ ioFailed' = ioFailed \cup {filepath}
    /\ UNCHANGED <<rootName, rootState, fsDirs, fsFiles, mode, walkStack, dirpath,
                   dirnames, filenames, filepath, raw, content, lines, functions,
                   total_lines, total_functions, file_count, stdout, stderr, counted>>

\* line 41: f.read()
Read ==
    /\ pc = "read"
    /\ \/ /\ \E bytes \in Universe(mode) :
                raw' = bytes /\ content' = TextRead(bytes)
          /\ pc' = "count"
          /\ UNCHANGED <<exc, exit, ioFailed, openFiles>>
       \/ /\ Raise("read", WithExit(openFiles, filepath, TRUE))
          /\ ioFailed' = ioFailed \cup {filepath}
          /\ UNCHANGED <<raw, content>>
    /\ UNCHANGED <<rootName, rootState, fsDirs, fsFiles, mode, walkStack, dirpath,
                   dirnames, filenames, filepath, lines, functions, total_lines,
                   total_functions, file_count, stdout, stderr, opened, counted>>

\* lines 42-47
Count ==
    /\ pc = "count"
    /\ lines' = Len(SplitLines(content))
    /\ functions' = count_functions(content)
    /\ total_lines' = total_lines + lines'
    /\ total_functions' = total_functions + functions'
    /\ file_count' = file_count + 1
    /\ counted' = counted \cup {[path |-> filepath, lines |-> lines', functions |-> functions']}
    /\ pc' = "print"
    /\ UNCHANGED <<rootName, rootState, fsDirs, fsFiles, mode, walkStack, dirpath,
                   dirnames, filenames, filepath, raw, content, exc, stdout, stderr,
                   openFiles, opened, ioFailed, exit>>

\* lines 50-51, then the end of the with block; relpath or print may raise
PrintRecord ==
    /\ pc = "print"
    /\ \/ /\ stdout' = Append(stdout, RecordLine(RelPath(filepath, root_dir), lines, functions))
          /\ openFiles' = WithExit(openFiles, filepath, FALSE)
          /\ pc' = "files"
          /\ UNCHANGED <<exc, exit>>
       \/ /\ Raise("print", WithExit(openFiles, filepath, TRUE))
          /\ UNCHANGED stdout
    /\ UNCHANGED <<rootName, rootState, fsDirs, fsFiles, mode, walkStack, dirpath,
                   dirnames, filenames, filepath, raw, content, lines, functions,
                   total_lines, total_functions, file_count, stderr, opened,
                   counted, ioFailed>>

\* lines 53-54
Except ==
    /\ pc = "except"
    /\ IF DiagStream = "stdout"
       THEN stdout' = Append(stdout, DiagLine(filepath, exc)) /\ stderr' = stderr
       ELSE stderr' = Append(stderr, DiagLine(filepath, exc)) /\ stdout' = stdout
    /\ pc' = "files"
    /\ UNCHANGED <<rootName, rootState, fsDirs, fsFiles, mode, walkStack, dirpath,
                   dirnames, filenames, filepath, raw, content, lines, functions,
                   exc, total_lines, total_functions, file_count, openFiles, opened,
                   counted, ioFailed, exit>>

\* lines 62-70: the returned totals are printed and the script ends
Summary ==
    /\ pc = "summary"
    /\ stdout' = Append(stdout, SummaryBlock(file_count, total_lines, total_functions))
    /\ pc' = "done"
    /\ exit' = "0"
    /\ UNCHANGED <<rootName, rootState, fsDirs, fsFiles, mode, walkStack, dirpath,
                   dirnames, filenames, filepath, raw, content, lines, functions,
                   exc, total_lines, total_functions, file_count, stderr, openFiles,
                   opened, counted, ioFailed>>

Next ==
    \/ Main \/ WalkNext \/ ForFile \/ WalkResume
    \/ Open \/ Read \/ Count \/ PrintRecord \/ Except
    \/ Summary

Spec == Init /\ [][Next]_vars

\* the single thread runs until the script ends
FairSpec == Spec /\ WF_vars(Next)

(***************************************************************************)
(* One file in isolation: the state in which line 38 has just named the    *)
(* only file of the tree, and the steps of lines 39-54 on it.  The texts   *)
(* the file may hold are those of the mode m.                              *)
(***************************************************************************)
OnlyFile == Join(<<"proj">>, <<"a", ".", "t", "s">>)

InitFile(m) ==
    /\ rootName = "proj" /\ rootState = "present"
    /\ fsDirs = {<<"proj">>} /\ fsFiles = {OnlyFile}
    /\ mode = m
    /\ pc = "open"
    /\ walkStack = <<>> /\ dirpath = <<"proj">> /\ dirnames = {} /\ filenames = {}
    /\ filepath = OnlyFile /\ raw = <<>> /\ content = <<>>
    /\ lines = 0 /\ functions = 0 /\ exc = ""
    /\ total_lines = 0 /\ total_functions = 0 /\ file_count = 0
    /\ stdout = <<Banner>> /\ stderr = <<>>
    /\ openFiles = {} /\ opened = {} /\ counted = {} /\ ioFailed = {}
    /\ exit = "running"

NextFile == Open \/ Read \/ Count \/ PrintRecord \/ Except

InitLines == InitFile("lines")
SpecLines == InitLines /\ [][NextFile]_vars

InitFunctions == InitFile("functions")
SpecFunctions == InitFunctions /\ [][NextFile]_vars

(***************************************************************************)
(* Vocabulary of the properties.                                           *)
(***************************************************************************)
RECURSIVE SumLines(_)
SumLines(S) ==
    IF S = {} THEN 0
    ELSE LET x == CHOOSE y \in S : TRUE IN x.lines + SumLines(S \ {x})

RECURSIVE SumFunctions(_)
SumFunctions(S) ==
    IF S = {} THEN 0
    ELSE LET x == CHOOSE y \in S : TRUE IN x.functions + SumFunctions(S \ {x})

\* the printed lines of one kind, each with its place in the stream
LinesOfKind(stream, kind) ==
    {[at |-> i, lines |-> stream[i].lines, functions |-> stream[i].functions] :
        i \in {j \in 1..Len(stream) : stream[j].kind = kind}}

\* the places of the lines of a stream that name the file f: a record
\* names it relative to the root, a diagnostic by its path
LinesAbout(stream, f) ==
    {i \in 1..Len(stream) :
        \/ stream[i].kind = "record"
              /\ stream[i].path = [dir |-> Tail(f.dir), name |-> f.name]
        \/ stream[i].kind = "diag" /\ stream[i].path = f}

DiagsAbout(stream, f) == {i \in LinesAbout(stream, f) : stream[i].kind = "diag"}
RecordsAbout(stream, f) == {i \in LinesAbout(stream, f) : stream[i].kind = "record"}

CountedPaths == {c.path : c \in counted}

\* analyze_project has returned
Returned == pc \in {"summary", "done"}

\* the file f is being handled by the except clause but not yet reported
BeingReported(f) == pc = "except" /\ filepath = f

NameHasSuffix(n, suffix) == \E k \in 0..Len(n) : n = SubSeq(n, 1, k) \o suffix
Recognized(n) ==
    \/ NameHasSuffix(n, <<".", "t", "s">>)  \/ NameHasSuffix(n, <<".", "t", "s", "x">>)
    \/ NameHasSuffix(n, <<".", "j", "s">>)  \/ NameHasSuffix(n, <<".", "j", "s", "x">>)

Excluded(name) == name \in {"node_modules", ".next", "dist", "build", ".git"}

\* f lies in a directory with an excluded name, the root's name included
InExcludedDir(f) == \E i \in 1..Len(f.dir) : Excluded(f.dir[i])
\* f lies in a directory below the root with an excluded name
InExcludedDirBelowRoot(f) == \E i \in 2..Len(f.dir) : Excluded(f.dir[i])

\* the candidate files: recognized name, no excluded directory below the root
Candidates == {f \in fsFiles : Recognized(f.name) /\ ~InExcludedDirBelowRoot(f)}

Untouched(f) ==
    /\ f \notin opened
    /\ f \notin CountedPaths
    /\ LinesAbout(stdout, f) = {}
    /\ LinesAbout(stderr, f) = {}

\* the totals are those of the files counted so far
TotalsAreCounted ==
    /\ file_count = Cardinality(counted)
    /\ total_lines = SumLines(counted)
    /\ total_functions = SumFunctions(counted)

(***************************************************************************)
(* C1.  After a run of analyze_project the totals are those of the record  *)
(* lines printed: file_count is their number, total_lines and              *)
(* total_functions the sums of their columns, also when relpath or print   *)
(* raised after the counters were incremented.                             *)
(***************************************************************************)
C1_TotalsEqualPrintedRecords ==
    Returned =>
        /\ file_count = Cardinality(LinesOfKind(stdout, "record"))
        /\ total_lines = SumLines(LinesOfKind(stdout, "record"))
        /\ total_functions = SumFunctions(LinesOfKind(stdout, "record"))

(***************************************************************************)
(* C2.  A candidate file whose open or read fails gets exactly one         *)
(* diagnostic line and no record, adds nothing to the three totals, and    *)
(* does not abort the run: the scan goes on, and when it ends the totals   *)
(* are those of all the other candidate files.                             *)
(***************************************************************************)
C2_FailedFileIsReportedAndSkipped ==
    /\ exit # "traceback"
    /\ TotalsAreCounted
    /\ \A f \in ioFailed :
          /\ f \notin CountedPaths
          /\ RecordsAbout(stdout, f) = {}
          /\ Cardinality(DiagsAbout(stdout, f)) + Cardinality(DiagsAbout(stderr, f))
                = IF BeingReported(f) THEN 0 ELSE 1
    /\ ioFailed # {} /\ pc \notin {"done", "crashed"} => ENABLED Next
    /\ Returned => CountedPaths = Candidates \ ioFailed

C2_Witness ==
    /\ pc = "done"
    /\ ioFailed # {}
    /\ counted # {}

C4_MissingRootAborts ==
    rootState # "present" =>
        /\ pc # "done"
        /\ exit # "0"
        /\ LinesOfKind(stdout, "summary") = {}

(***************************************************************************)
(* C4, amended.  With the scan root missing or inaccessible the failure    *)
(* of the traversal is dropped: no file is opened, the run goes on to its  *)
(* normal end, and what it prints is the banner and a summary of zeros.    *)
(***************************************************************************)
C4_MissingRootReportsZeros ==
    rootState # "present" =>
        /\ exit # "traceback"
        /\ opened = {}
        /\ pc # "done" => ENABLED Next
        /\ pc = "done" =>
              /\ exit = "0"
              /\ Len(stdout) = 2
              /\ stdout[1].kind = "banner"
              /\ stdout[2].kind = "summary"
              /\ stdout[2].files = 0 /\ stdout[2].lines = 0 /\ stdout[2].functions = 0
              /\ stderr = <<>>

C4_Witness == rootState = "missing" /\ pc = "done"

(***************************************************************************)
(* C5.  Only files whose name ends with .ts, .tsx, .js or .jsx are opened  *)
(* and counted; any other file of a scanned directory is never opened,     *)
(* gets no record and no diagnostic, and leaves the totals as they are.    *)
(***************************************************************************)
C5_OnlyRecognizedExtensions ==
    /\ \A f \in opened \cup CountedPaths : Recognized(f.name)
    /\ \A f \in fsFiles : ~Recognized(f.name) => Untouched(f)
    /\ \A f \in Candidates : pc = "done" => f \in opened
    /\ TotalsAreCounted

C5_Witness ==
    /\ pc = "done"
    /\ \E f \in fsFiles : ~Recognized(f.name) /\ f.dir = root_dir
    /\ \E g \in fsFiles : g.dir = root_dir /\ g \in opened

(***************************************************************************)
(* C6.  The function count of a text is the sum over the seven patterns    *)
(* of the number of matches of each, nothing being counted once for two    *)
(* patterns: `function foo() {` alone counts 1, `async function foo(`      *)
(* counts 2, and every match of the async-function pattern is counted      *)
(* again as a match of the function pattern.                               *)
(***************************************************************************)
C6_SumOverPatternsNoDedup ==
    pc = "print" =>
        /\ functions = NumMatches(patterns[1], content) + NumMatches(patterns[2], content)
                     + NumMatches(patterns[3], content) + NumMatches(patterns[4], content)
                     + NumMatches(patterns[5], content) + NumMatches(patterns[6], content)
                     + NumMatches(patterns[7], content)
        /\ functions >= 2 * NumMatches(patterns[4], content)
        /\ content = <<"function", "id", "(", ")", "{">> => functions = 1
        /\ content = <<"async", "function", "id", "(">> => functions = 2
        /\ total_functions = functions

C6_Witness ==
    /\ pc = "print"
    /\ content = <<"async", "function", "id", "(">>
    /\ functions = 2

(***************************************************************************)
(* C7.  As claimed: a file of exactly k newline-terminated lines is        *)
(* reported with k lines, whatever other characters the lines contain.     *)
(***************************************************************************)
NewlineTerminated(bytes) == bytes = <<>> \/ bytes[Len(bytes)] = "NL"
NumNewlines(bytes) == Cardinality({i \in 1..Len(bytes) : bytes[i] = "NL"})
RecordJustPrinted == pc = "files" /\ exc = "" /\ stdout[Len(stdout)].kind = "record"

C7_KLinesWhateverCharacters ==
    NewlineTerminated(raw) =>
        /\ pc = "print" => lines = NumNewlines(raw) /\ total_lines = NumNewlines(raw)
        /\ RecordJustPrinted => stdout[Len(stdout)].lines = NumNewlines(raw)

(***************************************************************************)
(* C7, amended.  A file of exactly k newline-terminated lines that hold no *)
(* other line boundary of str.splitlines (\r, \v, \f, \x1c, \x1d, \x1e,    *)
(* \x85, U+2028, U+2029) is reported with k lines, for every k >= 0,       *)
(* and k is what is added to total_lines.                                  *)
(***************************************************************************)
NoOtherBoundary(bytes) == \A i \in 1..Len(bytes) : bytes[i] \notin {"CR", "FF"}

C7_KLinesNoOtherBoundary ==
    NewlineTerminated(raw) /\ NoOtherBoundary(raw) =>
        /\ pc = "print" => lines = NumNewlines(raw) /\ total_lines = NumNewlines(raw)
        /\ RecordJustPrinted => stdout[Len(stdout)].lines = NumNewlines(raw)

C7_Witness ==
    /\ RecordJustPrinted
    /\ raw = <<"id", "NL", "BAD", "NL">>
    /\ stdout[Len(stdout)].lines = 2
    /\ total_lines = 2

(***************************************************************************)
(* C8.  As claimed: the diagnostic of an unreadable file is written to     *)
(* standard error as `Error (<path>): <message>`, and none to standard     *)
(* output.                                                                 *)
(***************************************************************************)
C8_DiagnosticsOnStderr ==
    \A f \in ioFailed :
        ~BeingReported(f) =>
            /\ DiagsAbout(stdout, f) = {}
            /\ \E i \in DiagsAbout(stderr, f) : stderr[i].text = "Error"

(***************************************************************************)
(* C8, amended.  The diagnostic of an unreadable file is written to        *)
(* standard output, as `Hata (<path>): <message>`; nothing is written to   *)
(* standard error, and standard output carries the banner, the records,    *)
(* the diagnostics and the summary.                                        *)
(***************************************************************************)
C8_DiagnosticsOnStdout ==
    /\ stderr = <<>>
    /\ \A i \in 1..Len(stdout) : stdout[i].kind \in {"banner", "record", "diag", "summary"}
    /\ \A f \in ioFailed :
          ~BeingReported(f) =>
              /\ Cardinality(DiagsAbout(stdout, f)) = 1
              /\ \A i \in DiagsAbout(stdout, f) :
                    stdout[i].text = "Hata" /\ stdout[i].msg \in {"open", "read"}

C8_Witness ==
    /\ pc = "done"
    /\ \E f \in ioFailed : \E i \in DiagsAbout(stdout, f) : stdout[i].msg = "read"

(***************************************************************************)
(* C9.  At most one file is open at any time, and only between its open    *)
(* and the end of the with block: the file is closed before the next one   *)
(* is opened and before the traversal ends, also when read, relpath or     *)
(* print raised.                                                           *)
(***************************************************************************)
C9_AtMostOneHandle ==
    /\ Cardinality(openFiles) <= 1
    /\ pc \in {"read", "count", "print"} => openFiles = {filepath}
    /\ pc \notin {"read", "count", "print"} => openFiles = {}

C9_Witness ==
    /\ pc = "open"
    /\ exc \in {"read", "print"}
    /\ Cardinality(opened) = 1
    /\ openFiles = {}

(***************************************************************************)
(* C10.  On every tree the run terminates with the summary printed exactly *)
(* once, as the last thing printed, showing the final values of the three  *)
(* counters.  Termination is stated by a variant: every step decreases     *)
(* Progress, a natural number, and a step is possible in every state but   *)
(* the final one.                                                          *)
(***************************************************************************)
Rank ==
    CASE pc = "main" -> 9
      [] pc = "open" -> 8
      [] pc = "read" -> 7
      [] pc = "count" -> 6
      [] pc = "print" -> 5
      [] pc = "except" -> 4
      [] pc = "files" -> 3
      [] pc = "walk" -> 2
      [] pc = "summary" -> 1
      [] OTHER -> 0

\* the directories not yet scanned
ToScan ==
    IF pc = "main" THEN fsDirs
    ELSE {d \in fsDirs :
            \/ \E i \in 1..Len(walkStack) : IsPrefix(walkStack[i], d)
            \/ /\ pc \notin {"walk", "summary", "done", "crashed"}
               /\ \E n \in dirnames : IsPrefix(dirpath \o <<n>>, d)}

Progress ==
    ((Cardinality(ToScan) * (Cardinality(fsFiles) + 1) + Cardinality(filenames)) * 10 + Rank)
        * (Cardinality(fsDirs) + 2) + Len(walkStack)

SummaryShown == LinesOfKind(stdout, "summary") # {}

C10_TerminatesWithOneSummary ==
    /\ [](pc = "done" \/ ENABLED Next)
    /\ [][Progress' < Progress]_vars
    /\ [](Progress >= 0)
    /\ [](SummaryShown <=> pc = "done")
    /\ [](pc = "done" =>
            /\ Cardinality(LinesOfKind(stdout, "summary")) = 1
            /\ stdout[Len(stdout)].kind = "summary"
            /\ stdout[Len(stdout)].files = file_count
            /\ stdout[Len(stdout)].lines = total_lines
            /\ stdout[Len(stdout)].functions = total_functions
            /\ TotalsAreCounted
            /\ exit = "0")
    /\ [][SummaryShown =>
            /\ stdout' = stdout /\ stderr' = stderr
            /\ total_lines' = total_lines
            /\ total_functions' = total_functions
            /\ file_count' = file_count]_vars

C10_Witness ==
    /\ pc = "done"
    /\ Cardinality(LinesOfKind(stdout, "record")) >= 1
    /\ Cardinality(LinesOfKind(stdout, "diag")) >= 1
    /\ file_count # total_lines

\* under fair scheduling of the single thread the variant gives termination
Terminates == <>(pc = "done")

====
